---------------------------- MODULE Spec2Model ----------------------------
(***************************************************************************)
(* A model of the two demonstration programs of the repository:            *)
(*                                                                         *)
(*   examples/demo/server/main.go   the multicast-and-observe server       *)
(*   examples/demo/client/main.go   the discovery-and-observe client       *)
(*                                                                         *)
(* The CoAP library (plgd-dev/go-coap/v3) is outside the repository.  The  *)
(* model treats it as the environment: it delivers requests to the         *)
(* handlers, runs the discovery callbacks, and makes each WriteMessage     *)
(* succeed or fail.                                                        *)
(***************************************************************************)
EXTENDS Integers, Sequences, FiniteSets, TLC

(***************************************************************************)
(* Bounds of the model.                                                    *)
(***************************************************************************)
\* transmitter goroutines the model lets the server spawn
MaxTx == 2
\* write attempts the model follows, over all transmitters
MaxPush == 3
\* requests to /observe the model follows
MaxReq == 3

\* The network interfaces gonet.Interfaces() returns at most.
MaxIfaces == 3

\* The notifications the client's observation callback is called for.
MaxNotes == 2

(***************************************************************************)
(* Integers of the server.  TLC's integers are 32 bits wide, so an int64   *)
(* is kept as two limbs, value = hi * 2^16 + lo with 0 <= lo < 2^16 (floor *)
(* division, so -1 is hi = -1, lo = 2^16 - 1), and a uint32 as two limbs   *)
(* of 16 bits each.                                                        *)
(***************************************************************************)
Limb == 2 ^ 16

I64(n) == [hi |-> n \div Limb, lo |-> n % Limb]

\* obs++ of the loop header
Inc64(v) ==
    IF v.lo = Limb - 1 THEN [hi |-> v.hi + 1, lo |-> 0]
                       ELSE [hi |-> v.hi, lo |-> v.lo + 1]

\* obs >= 0
NonNeg64(v) == v.hi >= 0

\* The conversion uint32(obs): the low 32 bits.
Uint32(v) == [hi |-> v.hi % Limb, lo |-> v.lo]

\* a < b on uint32 values
U32Less(a, b) == a.hi < b.hi \/ (a.hi = b.hi /\ a.lo < b.lo)

\* a + 1 on uint32 values, wrapping at 2^32
U32Succ(a) ==
    IF a.lo # Limb - 1 THEN [hi |-> a.hi, lo |-> a.lo + 1]
    ELSE [hi |-> (a.hi + 1) % Limb, lo |-> 0]

\* the largest uint32, 2^32 - 1
U32Max == [hi |-> Limb - 1, lo |-> Limb - 1]

(***************************************************************************)
(* The server's inputs.                                                    *)
(***************************************************************************)
Conns == {"c1", "c2"}
Tokens == {"t1", "t2"}
Codes == {"GET", "POST"}
Types == {"CON", "NON"}

\* r.Options().Observe(): the option is absent (err # nil) or carries a value.
\* 0 registers, 1 deregisters.
NoObserve == [set |-> FALSE, val |-> 0]
ObserveOpts == {NoObserve, [set |-> TRUE, val |-> 0], [set |-> TRUE, val |-> 1]}

\* Each client uses its own token: c1 sends t1, c2 sends t2.
TokenOf(c) == IF c = "c1" THEN "t1" ELSE "t2"

Requests ==
    {r \in [conn : Conns, token : Tokens, code : Codes, type : Types, obs : ObserveOpts] :
        r.token = TokenOf(r.conn)}

Tids == 1 .. MaxTx

\* the observe option of a written message: unset, or a uint32
NoOpt == [set |-> FALSE, val |-> Uint32(I64(0))]
Opt(u) == [set |-> TRUE, val |-> u]

VARIABLES
    tx,         \* tx[t]: the goroutine periodicTransmitter number t
    handled,    \* what the last call of handleObserve did
    nspawned,   \* goroutines started so far
    nreq,       \* requests handled so far
    srv         \* the server's main function and its two serving loops

VARIABLES
    prog,        \* which of the two client programs of client/main.go runs
    mpc,         \* where the client's main function is
    firstDevice, \* the variable firstDevice shared by main and the callbacks
    cb,          \* cb[r]: where the discovery callback for responder r is
    signalFrom,  \* the responder whose send on deviceFound main received
    observerAddr, \* the variable observerAddr of main
    co,          \* the address udp.Dial connected to, "" before
    defers,      \* the calls main has deferred so far, in the order of the defers
    ran,         \* the calls that release, cancel or close, in the order made
    note         \* what the observation callback did with the notifications

svars == <<tx, handled, nspawned, nreq, srv>>
xvars == <<observerAddr, co, defers, ran, note>>
cvars == <<prog, mpc, firstDevice, cb, signalFrom, xvars>>
vars == <<tx, handled, nspawned, nreq, srv, prog, mpc, firstDevice, cb, signalFrom,
          observerAddr, co, defers, ran, note>>

\* A transmitter that was never started.  The fields after obs are history
\* kept for the properties: the observe option of the last message written,
\* whether any message was written, the writes tried and done and the sleeps
\* completed in this run, whether a write failed, and whether a deregistering
\* GET for the same connection and token was handled since the start.
FreeTx ==
    [pc |-> "free", conn |-> "c1", token |-> "t1", obs |-> I64(2),
     last |-> NoOpt, lastToken |-> "t1", wrote |-> FALSE,
     nwrites |-> 0, nattempts |-> 0, nsleeps |-> 0,
     failed |-> FALSE, cancelled |-> FALSE, postCancel |-> 0]

NoRequest ==
    [conn |-> "c1", token |-> "t1", code |-> "POST", type |-> "NON", obs |-> NoObserve]

NoMessage == [token |-> "t1", observe |-> NoOpt, elapsed |-> 0]

NothingHandled ==
    [any |-> FALSE, req |-> NoRequest, branch |-> "none", tid |-> 0,
     attempts |-> 0, msg |-> NoMessage, err |-> FALSE]

(***************************************************************************)
(* sendResponse (server, lines 28-39): the message it builds.  The observe *)
(* option is set only for obs >= 0, to uint32(obs).  The body is the time  *)
(* since subded, here in seconds slept.                                    *)
(***************************************************************************)
\* A faulty variant: the test obs >= 0 of line 35 is left out
sendResponseAlways(token, elapsed, obs) ==
    [token |-> token, observe |-> Opt(Uint32(obs)), elapsed |-> elapsed]

sendResponse(token, elapsed, obs) ==
    [token |-> token,
     observe |-> IF NonNeg64(obs) THEN Opt(Uint32(obs)) ELSE NoOpt,
     elapsed |-> elapsed]

\* cc.WriteMessage(m) returns an error or nil; which one is the library's and
\* the network's choice (a closed connection, an expired context, a full buffer).
WriteErrors == BOOLEAN

RECURSIVE SumAttempts(_)
SumAttempts(n) == IF n = 0 THEN 0 ELSE tx[n].nattempts + SumAttempts(n - 1)

(***************************************************************************)
(* periodicTransmitter (server, lines 41-52).                              *)
(***************************************************************************)
\* A faulty variant: the loop sleeps before it sends
StartedTxSleepFirst(c, token) ==
    [pc |-> "sleep", conn |-> c, token |-> token, obs |-> I64(1),
     last |-> NoOpt, lastToken |-> "t1", wrote |-> FALSE,
     nwrites |-> 0, nattempts |-> 0, nsleeps |-> 0,
     failed |-> FALSE, cancelled |-> FALSE, postCancel |-> 0]

\* go periodicTransmitter(cc, token): subded := time.Now(); obs := int64(2)
StartedTx(c, token) ==
    [FreeTx EXCEPT !.pc = "send", !.conn = c, !.token = token, !.obs = I64(2)]

\* A faulty variant: the loop logs the error and goes on
AfterSendRetry(s, err) ==
    IF err
    THEN [s EXCEPT !.pc = "sleep", !.failed = TRUE,
                   !.nattempts = s.nattempts + 1]
    ELSE [s EXCEPT !.pc = "sleep",
                   !.last = Opt(Uint32(s.obs)),
                   !.lastToken = s.token,
                   !.wrote = TRUE,
                   !.nwrites = s.nwrites + 1,
                   !.nattempts = s.nattempts + 1,
                   !.postCancel = s.postCancel + (IF s.cancelled THEN 1 ELSE 0)]

\* A faulty variant: after a write the loop goes on at once, without the sleep
AfterSendNoSleep(s, err) ==
    IF err
    THEN [s EXCEPT !.pc = "stopped", !.failed = TRUE,
                   !.nattempts = s.nattempts + 1]
    ELSE [s EXCEPT !.pc = "send",
                   !.obs = Inc64(s.obs),
                   !.last = Opt(Uint32(s.obs)),
                   !.lastToken = s.token,
                   !.wrote = TRUE,
                   !.nwrites = s.nwrites + 1,
                   !.nattempts = s.nattempts + 1,
                   !.postCancel = s.postCancel + (IF s.cancelled THEN 1 ELSE 0)]

\* A faulty variant: the goroutine returns after its first write
AfterSendOnce(s, err) ==
    IF err
    THEN [s EXCEPT !.pc = "stopped", !.failed = TRUE,
                   !.nattempts = s.nattempts + 1]
    ELSE [s EXCEPT !.pc = "stopped",
                   !.last = Opt(Uint32(s.obs)),
                   !.lastToken = s.token,
                   !.wrote = TRUE,
                   !.nwrites = s.nwrites + 1,
                   !.nattempts = s.nattempts + 1,
                   !.postCancel = s.postCancel + (IF s.cancelled THEN 1 ELSE 0)]

\* lines 45-50: the state after sendResponse returned err
AfterSend(s, err) ==
    IF err
    THEN [s EXCEPT !.pc = "stopped", !.failed = TRUE,
                   !.nattempts = s.nattempts + 1]
    ELSE [s EXCEPT !.pc = "sleep",
                   !.last = sendResponse(s.token, s.nsleeps, s.obs).observe,
                   !.lastToken = sendResponse(s.token, s.nsleeps, s.obs).token,
                   !.wrote = TRUE,
                   !.nwrites = s.nwrites + 1,
                   !.nattempts = s.nattempts + 1,
                   !.postCancel = s.postCancel + (IF s.cancelled THEN 1 ELSE 0)]

\* A faulty variant: the loop header forgets obs++
AfterSleepNoInc(s) ==
    [s EXCEPT !.pc = "send", !.nsleeps = s.nsleeps + 1]

\* line 50 and the loop header: time.Sleep returns, obs++
AfterSleep(s) ==
    [s EXCEPT !.pc = "send", !.obs = Inc64(s.obs), !.nsleeps = s.nsleeps + 1]

\* A faulty variant: a failed write stops the transmitters of all subscribers
periodicTransmitterSendStopsAll(t) ==
    /\ tx[t].pc = "send"
    /\ SumAttempts(MaxTx) < MaxPush
    /\ \E err \in WriteErrors :
           tx' = IF err
                 THEN [u \in Tids |->
                          IF u = t THEN AfterSend(tx[t], err)
                          ELSE IF tx[u].pc \in {"send", "sleep"}
                               THEN [tx[u] EXCEPT !.pc = "stopped"]
                               ELSE tx[u]]
                 ELSE [tx EXCEPT ![t] = AfterSend(tx[t], err)]
    /\ UNCHANGED <<handled, nspawned, nreq, srv, cvars>>

\* One iteration's sendResponse call and the test of its error.
periodicTransmitterSend(t) ==
    /\ tx[t].pc = "send"
    /\ SumAttempts(MaxTx) < MaxPush
    /\ \E err \in WriteErrors :
           tx' = [tx EXCEPT ![t] = AfterSend(tx[t], err)]
    /\ UNCHANGED <<handled, nspawned, nreq, srv, cvars>>

periodicTransmitterWake(t) ==
    /\ tx[t].pc = "sleep"
    /\ tx' = [tx EXCEPT ![t] = AfterSleep(tx[t])]
    /\ UNCHANGED <<handled, nspawned, nreq, srv, cvars>>

(***************************************************************************)
(* handleObserve (server, lines 65-77).                                    *)
(***************************************************************************)
\* A faulty variant: the first case also asks for a confirmable request
BranchConfirmable(req) ==
    IF req.code = "GET" /\ req.type = "CON" /\ req.obs.set /\ req.obs.val = 0
    THEN "spawn"
    ELSE IF req.code = "GET" THEN "answer"
    ELSE "none"

\* The switch of lines 68-76: which case a request takes.
Branch(req) ==
    IF req.code = "GET" /\ req.obs.set /\ req.obs.val = 0 THEN "spawn"
    ELSE IF req.code = "GET" THEN "answer"
    ELSE "none"

\* A GET with observe value 1 is the client's deregistration (obs.Cancel).
IsCancel(req) == req.code = "GET" /\ req.obs.set /\ req.obs.val = 1

\* A faulty variant: a deregistration stops the transmitters of the subscription
ExistingTxDeregister(req) ==
    [t \in Tids |->
        IF /\ tx[t].pc # "free" /\ req.code = "GET" /\ req.obs.set /\ req.obs.val = 1
           /\ tx[t].conn = req.conn /\ tx[t].token = req.token
        THEN [tx[t] EXCEPT !.cancelled = TRUE, !.pc = "stopped"]
        ELSE tx[t]]

\* What handleObserve does to the transmitters already started: nothing.  The
\* model only notes, for the properties, that a deregistration was seen.
ExistingTx(req) ==
    [t \in Tids |->
        IF /\ tx[t].pc # "free" /\ IsCancel(req)
           /\ tx[t].conn = req.conn /\ tx[t].token = req.token
        THEN [tx[t] EXCEPT !.cancelled = TRUE]
        ELSE tx[t]]

handleObserve(req) ==
    /\ nreq < MaxReq
    /\ nreq' = nreq + 1
    /\ CASE Branch(req) = "spawn" ->
              /\ nspawned < MaxTx
              /\ tx' = [ExistingTx(req) EXCEPT
                           ![nspawned + 1] = StartedTx(req.conn, req.token)]
              /\ nspawned' = nspawned + 1
              /\ handled' = [NothingHandled EXCEPT
                                !.any = TRUE, !.req = req, !.branch = "spawn",
                                !.tid = nspawned + 1]
         [] Branch(req) = "answer" ->
              /\ \E err \in WriteErrors :
                     handled' = [NothingHandled EXCEPT
                                    !.any = TRUE, !.req = req, !.branch = "answer",
                                    !.attempts = 1,
                                    !.msg = sendResponse(req.token, 0, I64(-1)),
                                    !.err = err]
              /\ tx' = ExistingTx(req)
              /\ UNCHANGED nspawned
         [] OTHER ->
              /\ handled' = [NothingHandled EXCEPT !.any = TRUE, !.req = req]
              /\ tx' = ExistingTx(req)
              /\ UNCHANGED nspawned
    /\ UNCHANGED <<srv, cvars>>

(***************************************************************************)
(* main (server, lines 79-138): the multicast listener, the group joins,   *)
(* and the two serving loops.  srv.pc is where main is; srv.n the number   *)
(* of interfaces, srv.i how many of them the join loop has done and        *)
(* srv.failed the ones whose JoinGroup failed; srv.unicast and             *)
(* srv.multicast are the two loops; srv.cause is the call whose error      *)
(* ended the process.                                                      *)
(***************************************************************************)
ServerDown ==
    [pc |-> "listen", listener |-> FALSE, n |-> 0, i |-> 0, failed |-> {},
     unicast |-> "off", multicast |-> "off", cause |-> "none"]

\* The server whose handlers run: both loops are serving.
ServerUp ==
    [ServerDown EXCEPT !.pc = "serving", !.listener = TRUE,
                       !.unicast = "serving", !.multicast = "serving"]

\* log.Fatal(err): the process ends, with all its goroutines.
Fatal(s, call) == [s EXCEPT !.pc = "fatal", !.cause = call]

\* l, err := net.NewListenUDP("udp4", multicastAddr) (lines 91-94)
SrvListen ==
    /\ srv.pc = "listen"
    /\ \/ srv' = [srv EXCEPT !.pc = "interfaces", !.listener = TRUE]
       \/ srv' = Fatal(srv, "NewListenUDP")
    /\ UNCHANGED <<tx, handled, nspawned, nreq, cvars>>

\* ifaces, err := gonet.Interfaces() (lines 97-100)
SrvInterfaces ==
    /\ srv.pc = "interfaces"
    /\ \/ \E n \in 0 .. MaxIfaces : srv' = [srv EXCEPT !.pc = "resolve", !.n = n]
       \/ srv' = Fatal(srv, "Interfaces")
    /\ UNCHANGED <<tx, handled, nspawned, nreq, cvars>>

\* a, err := gonet.ResolveUDPAddr("udp4", multicastAddr) (lines 103-106)
SrvResolve ==
    /\ srv.pc = "resolve"
    /\ \/ srv' = [srv EXCEPT !.pc = "join"]
       \/ srv' = Fatal(srv, "ResolveUDPAddr")
    /\ UNCHANGED <<tx, handled, nspawned, nreq, cvars>>

\* A faulty variant: a failed join ends the server
AfterJoinFatal(s, err) ==
    IF err
    THEN Fatal([s EXCEPT !.i = s.i + 1, !.failed = s.failed \cup {s.i + 1}], "JoinGroup")
    ELSE [s EXCEPT !.i = s.i + 1]

\* One iteration of the loop of lines 109-115: err := l.JoinGroup(&iface, a);
\* an error is logged and the loop goes on.
AfterJoin(s, err) ==
    IF err
    THEN [s EXCEPT !.i = s.i + 1, !.failed = s.failed \cup {s.i + 1}]
    ELSE [s EXCEPT !.i = s.i + 1]

SrvJoin ==
    /\ srv.pc = "join"
    /\ srv.i < srv.n
    /\ \E err \in BOOLEAN : srv' = AfterJoin(srv, err)
    /\ UNCHANGED <<tx, handled, nspawned, nreq, cvars>>

\* After the loop: l.SetMulticastLoopback(true) (lines 118-121), then the
\* deferred l.Close, the server s and the deferred s.Stop (lines 123-127).
SrvLoopback ==
    /\ srv.pc = "join"
    /\ srv.i = srv.n
    /\ \/ srv' = [srv EXCEPT !.pc = "start"]
       \/ srv' = Fatal(srv, "SetMulticastLoopback")
    /\ UNCHANGED <<tx, handled, nspawned, nreq, cvars>>

\* go func() { log.Fatal(coap.ListenAndServe("udp4", ":5688", m)) }() (lines
\* 130-133): the goroutine of the unicast loop is started.
SrvGoUnicast ==
    /\ srv.pc = "start"
    /\ srv' = [srv EXCEPT !.pc = "serve", !.unicast = "started"]
    /\ UNCHANGED <<tx, handled, nspawned, nreq, cvars>>

\* The goroutine runs coap.ListenAndServe, which serves on :5688.
UnicastServe ==
    /\ srv.pc \in {"serve", "serving"}
    /\ srv.unicast = "started"
    /\ srv' = [srv EXCEPT !.unicast = "serving"]
    /\ UNCHANGED <<tx, handled, nspawned, nreq, cvars>>

\* coap.ListenAndServe returns (the port is taken, the socket fails):
\* log.Fatal in the goroutine (line 132).
UnicastReturn ==
    /\ srv.pc \in {"serve", "serving"}
    /\ srv.unicast \in {"started", "serving"}
    /\ srv' = Fatal(srv, "ListenAndServe")
    /\ UNCHANGED <<tx, handled, nspawned, nreq, cvars>>

\* main calls s.Serve(l) (line 137), the multicast loop.
SrvServe ==
    /\ srv.pc = "serve"
    /\ srv' = [srv EXCEPT !.pc = "serving", !.multicast = "serving"]
    /\ UNCHANGED <<tx, handled, nspawned, nreq, cvars>>

\* s.Serve returns: log.Fatal (line 137).
ServeReturn ==
    /\ srv.pc = "serving"
    /\ srv' = Fatal(srv, "Serve")
    /\ UNCHANGED <<tx, handled, nspawned, nreq, cvars>>

ServerMainNext ==
    \/ SrvListen
    \/ SrvInterfaces
    \/ SrvResolve
    \/ SrvJoin
    \/ SrvLoopback
    \/ SrvGoUnicast
    \/ UnicastServe
    \/ UnicastReturn
    \/ SrvServe
    \/ ServeReturn

(***************************************************************************)
(* The client.  client/main.go holds two programs, each with its own       *)
(* package clause and main function: the first (lines 1-146) skips         *)
(* loopback responders and waits for a device with a timeout, the second   *)
(* (lines 148-276) takes any responder and waits without a timeout.        *)
(***************************************************************************)
Progs == {1, 2}

\* The observation callback has run for no notification yet.
NoNotes == [printed |-> 0, dropped |-> 0, last |-> "none"]

\* The UDP addresses discovery responses come from (the listener is udp4).
Responders ==
    {[ip |-> "127.0.0.1", port |-> "5683"],
     [ip |-> "127.0.0.2", port |-> "5683"],
     [ip |-> "192.168.1.5", port |-> "5683"],
     [ip |-> "203.0.113.5", port |-> "49152"]}

\* 127.0.0.0/8 is the loopback network.
IsLoopbackIP(ip) == ip \in {"127.0.0.1", "127.0.0.2"}

\* A string is the sequence of its pieces; "" is the empty sequence.
EmptyString == << >>

\* cc.RemoteAddr().String() of a UDP address
AddrString(r) == <<r.ip, ":", r.port>>

\* net.SplitHostPort: the host before the last colon, the port after it.
LastColon(str) ==
    IF \E i \in 1 .. Len(str) : str[i] = ":"
    THEN CHOOSE i \in 1 .. Len(str) :
             str[i] = ":" /\ \A j \in (i + 1) .. Len(str) : str[j] # ":"
    ELSE 0

SplitHostPort(str) ==
    IF LastColon(str) = 0
    THEN [host |-> EmptyString, port |-> EmptyString, err |-> TRUE]
    ELSE [host |-> SubSeq(str, 1, LastColon(str) - 1),
          port |-> SubSeq(str, LastColon(str) + 1, Len(str)),
          err |-> FALSE]

\* Lines 73-83 of the first program: the callback returns early when the address
\* does not parse or the host is one of three names.  The second program has no
\* such test (lines 217-224).
Skips(p, addr) ==
    /\ p = 1
    /\ \/ SplitHostPort(addr).err
       \/ SplitHostPort(addr).host \in {<<"127.0.0.1">>, <<"::1">>, <<"localhost">>}

\* The process is running: log.Fatal and a signal end it with all its goroutines.
Alive == mpc \notin {"fatal", "timeout", "killed"}

\* The discovery request has been sent: the library may run the callback.
Listening == mpc \in {"discover", "wait", "derive", "dial", "observe", "running"}

\* A response of r arrives and the library calls the callback, in a goroutine
\* of r's connection: lines 72-85 (first program), line 218 (second program).
CbStart(r) ==
    /\ Listening
    /\ cb[r] = "idle"
    /\ cb' = [cb EXCEPT ![r] = IF Skips(prog, AddrString(r)) THEN "skipped" ELSE "check"]
    /\ UNCHANGED <<prog, mpc, firstDevice, signalFrom, xvars, svars>>

\* if firstDevice == "" (line 86, line 219)
CbCheck(r) ==
    /\ Alive
    /\ cb[r] = "check"
    /\ cb' = [cb EXCEPT ![r] = IF firstDevice = EmptyString THEN "set" ELSE "done"]
    /\ UNCHANGED <<prog, mpc, firstDevice, signalFrom, xvars, svars>>

\* firstDevice = addr (line 87, line 220)
CbSet(r) ==
    /\ Alive
    /\ cb[r] = "set"
    /\ firstDevice' = AddrString(r)
    /\ cb' = [cb EXCEPT ![r] = "send"]
    /\ UNCHANGED <<prog, mpc, signalFrom, xvars, svars>>

\* deviceFound <- true (line 88, line 221) meets main's receive (line 97, line
\* 230): the channel is unbuffered.
CbSend(r) ==
    /\ cb[r] = "send"
    /\ mpc = "wait"
    /\ cb' = [cb EXCEPT ![r] = "done"]
    /\ mpc' = "derive"
    /\ signalFrom' = r.ip
    /\ UNCHANGED <<prog, firstDevice, xvars, svars>>

\* The calls main has deferred when the request is ready: wg.Wait (line 35),
\* s.Stop (line 36), cancel (line 47), messagePool.ReleaseMessage(req) (line 60).
SetupDefers == <<"wg.Wait", "s.Stop", "cancel", "messagePool.ReleaseMessage">>

\* How many of them are deferred at each log.Fatal of the setup: none at line
\* 26, three at line 56, four at line 64.
FatalPoints == {0, 3, 4}

\* Lines 24-67 (166-213): the listener, the token and the request are set up;
\* each failure is a log.Fatal, which ends the process by os.Exit: no deferred
\* call runs.
MainSetup ==
    /\ mpc = "start"
    /\ \/ /\ mpc' = "discover"
          /\ defers' = SetupDefers
       \/ /\ mpc' = "fatal"
          /\ \E k \in FatalPoints : defers' = SubSeq(SetupDefers, 1, k)
    /\ UNCHANGED <<prog, firstDevice, cb, signalFrom, observerAddr, co, ran, note, svars>>

\* s.DiscoveryRequest returns (lines 71-93, 217-227).
MainDiscovered ==
    /\ mpc = "discover"
    /\ \E err \in BOOLEAN : mpc' = IF err THEN "fatal" ELSE "wait"
    /\ UNCHANGED <<prog, firstDevice, cb, signalFrom, xvars, svars>>

\* case <-time.After(discoveryTimeout) (lines 99-100), the first program only:
\* log.Fatal("Timeout: No non-local devices found").
MainTimeout ==
    /\ prog = 1
    /\ mpc = "wait"
    /\ mpc' = "timeout"
    /\ UNCHANGED <<prog, firstDevice, cb, signalFrom, xvars, svars>>

\* A faulty variant: the device's own port is kept
ObserverAddrKeepPort(device) == device

\* observerAddr := fmt.Sprintf("%s:5688", host), host from
\* net.SplitHostPort(firstDevice) (lines 104-108, 234-238)
ObserverAddr(device) == SplitHostPort(device).host \o <<":", "5688">>

\* Lines 104-112 (234-242): the observer address, then the second context with
\* its deferred cancel.
MainDerive ==
    /\ mpc = "derive"
    /\ IF SplitHostPort(firstDevice).err
       THEN /\ mpc' = "fatal"
            /\ UNCHANGED <<observerAddr, defers>>
       ELSE /\ mpc' = "dial"
            /\ observerAddr' = ObserverAddr(firstDevice)
            /\ defers' = Append(defers, "cancel")
    /\ UNCHANGED <<prog, firstDevice, cb, signalFrom, co, ran, note, svars>>

\* udp.Dial(observerAddr, ...) and defer co.Close() (lines 114-121, 244-251)
MainDial ==
    /\ mpc = "dial"
    /\ \/ /\ mpc' = "observe"
          /\ co' = observerAddr
          /\ defers' = Append(defers, "co.Close")
       \/ /\ mpc' = "fatal"
          /\ UNCHANGED <<co, defers>>
    /\ UNCHANGED <<prog, firstDevice, cb, signalFrom, observerAddr, ran, note, svars>>

\* co.Observe (lines 127-137, 255-266), the deferred obs.Cancel (lines 138-142,
\* 267-271), then select {} (line 145, line 275): main blocks for ever and
\* never returns.
MainObserve ==
    /\ mpc = "observe"
    /\ \/ /\ mpc' = "running"
          /\ defers' = Append(defers, "obs.Cancel")
       \/ /\ mpc' = "fatal"
          /\ UNCHANGED defers
    /\ UNCHANGED <<prog, firstDevice, cb, signalFrom, observerAddr, co, ran, note, svars>>

\* The process is interrupted (Ctrl+C).  Neither program installs a signal
\* handler, so the runtime ends the process at once: no deferred call runs.
MainInterrupt ==
    /\ Alive
    /\ mpc' = "killed"
    /\ UNCHANGED <<prog, firstDevice, cb, signalFrom, xvars, svars>>

\* A faulty variant: a body that cannot be read ends the observation
ObserveCallbackGivesUp(n, err) ==
    IF err
    THEN [note |-> [n EXCEPT !.dropped = n.dropped + 1, !.last = "dropped"],
          calls |-> <<"obs.Cancel", "co.Close">>]
    ELSE [note |-> [n EXCEPT !.printed = n.printed + 1, !.last = "printed"],
          calls |-> << >>]

\* The function given to co.Observe (lines 127-134, 255-262): req.ReadBody()
\* fails and the callback logs and returns, or the body is logged.  It calls
\* nothing else.
ObserveCallback(n, err) ==
    IF err
    THEN [note |-> [n EXCEPT !.dropped = n.dropped + 1, !.last = "dropped"],
          calls |-> << >>]
    ELSE [note |-> [n EXCEPT !.printed = n.printed + 1, !.last = "printed"],
          calls |-> << >>]

\* The subscription is in place: the observation was set up and neither
\* cancelled nor is its connection closed.
Subscribed ==
    /\ mpc = "running"
    /\ \A i \in 1 .. Len(ran) : ran[i] \notin {"obs.Cancel", "co.Close"}

\* A notification arrives and the library calls the observation callback.
Notify ==
    /\ Subscribed
    /\ note.printed + note.dropped < MaxNotes
    /\ \E err \in BOOLEAN :
           /\ note' = ObserveCallback(note, err).note
           /\ ran' = ran \o ObserveCallback(note, err).calls
    /\ UNCHANGED <<prog, mpc, firstDevice, cb, signalFrom, observerAddr, co, defers, svars>>

ClientStart ==
    /\ mpc = "start"
    /\ firstDevice = EmptyString
    /\ cb = [r \in Responders |-> "idle"]
    /\ signalFrom = "none"
    /\ observerAddr = EmptyString
    /\ co = EmptyString
    /\ defers = << >>
    /\ ran = << >>
    /\ note = NoNotes

ClientNext ==
    \/ MainSetup
    \/ MainDiscovered
    \/ MainTimeout
    \/ MainDerive
    \/ MainDial
    \/ MainObserve
    \/ MainInterrupt
    \/ Notify
    \/ \E r \in Responders : CbStart(r)
    \/ \E r \in Responders : CbCheck(r)
    \/ \E r \in Responders : CbSet(r)
    \/ \E r \in Responders : CbSend(r)

ServerInit ==
    /\ tx = [t \in Tids |-> FreeTx]
    /\ handled = NothingHandled
    /\ nspawned = 0
    /\ nreq = 0
    /\ srv = ServerUp

(***************************************************************************)
(* A server that has been up for a long time: the transmitter of the first *)
(* subscription has run 2^32 - 3 iterations of its loop without a write    *)
(* error (obs went 2, 3, ..., 2^32 - 1; one iteration a second), has slept *)
(* and is about to write with obs = 2^32 - 1.  Its counts of writes and    *)
(* sleeps are those of the run that follows.                               *)
(***************************************************************************)
AgedTx ==
    [StartedTx("c1", "t1") EXCEPT
        !.obs = [hi |-> Limb - 1, lo |-> Limb - 1],
        !.last = Opt([hi |-> Limb - 1, lo |-> Limb - 2]),
        !.wrote = TRUE]

LongRunInit ==
    /\ tx = [t \in Tids |-> IF t = 1 THEN AgedTx ELSE FreeTx]
    /\ handled = NothingHandled
    /\ nspawned = 1
    /\ nreq = 0
    /\ srv = ServerUp

ServerNext ==
    \/ \E req \in Requests : handleObserve(req)
    \/ \E t \in Tids : periodicTransmitterSend(t)
    \/ \E t \in Tids : periodicTransmitterWake(t)

\* The server and the client are two programs: each is checked on its own, with
\* the other one not started.
Init == ServerInit /\ ClientStart /\ prog = 1

Spec == Init /\ [][ServerNext]_vars

\* The Go scheduler runs every goroutine that can run: a transmitter that can
\* write gets to write, and one that sleeps wakes up.  Requests are the
\* clients' choice.
Fairness ==
    \A t \in Tids :
        /\ WF_vars(periodicTransmitterSend(t))
        /\ WF_vars(periodicTransmitterWake(t))

SpecFair == Init /\ [][ServerNext]_vars /\ Fairness

\* The server from the start of its main function, before any request.
ServerMainInit ==
    /\ tx = [t \in Tids |-> FreeTx]
    /\ handled = NothingHandled
    /\ nspawned = 0
    /\ nreq = 0
    /\ srv = ServerDown

InitServerMain == ServerMainInit /\ ClientStart /\ prog = 1

SpecServerMain == InitServerMain /\ [][ServerMainNext]_vars

InitLongRun == LongRunInit /\ ClientStart /\ prog = 1

SpecLongRun == InitLongRun /\ [][ServerNext]_vars

ClientInit == ServerInit /\ ClientStart /\ prog \in Progs

SpecClient == ClientInit /\ [][ClientNext]_vars

Running(t) == tx[t].pc \in {"send", "sleep"}

\* transmitter t completes a write in this step
Wrote(t) == tx'[t].nwrites = tx[t].nwrites + 1

-----------------------------------------------------------------------------
(***************************************************************************)
(* C3 (original statement): the observe values a transmitter attaches      *)
(* start at 2, each is the one before plus one, and each is larger than    *)
(* the one before, so none is reused.                                      *)
(***************************************************************************)
C3_StrictlyIncreasing ==
    [][\A t \in Tids : Wrote(t) =>
          /\ tx'[t].last.set
          /\ IF tx[t].wrote
             THEN /\ tx'[t].last.val = Inc64(tx[t].last.val)
                  /\ U32Less(tx[t].last.val, tx'[t].last.val)
             ELSE tx'[t].last.val = Uint32(I64(2))]_vars

(***************************************************************************)
(* C3 (amended): the first notification of a transmitter carries 2, and    *)
(* each later one carries the value before plus one modulo 2^32: the       *)
(* values strictly increase, and none is reused, up to 2^32 - 1; the       *)
(* notification after 2^32 - 1 carries 0.                                  *)
(***************************************************************************)
C3_IncreasingModulo ==
    [][\A t \in Tids : Wrote(t) =>
          /\ tx'[t].last.set
          /\ IF tx[t].wrote
             THEN /\ tx'[t].last.val = U32Succ(tx[t].last.val)
                  /\ tx[t].last.val # U32Max =>
                         U32Less(tx[t].last.val, tx'[t].last.val)
                  /\ tx[t].last.val = U32Max => tx'[t].last.val = Uint32(I64(0))
             ELSE tx'[t].last.val = Uint32(I64(2))]_vars

\* C3 witness: a transmitter went from 2^32 - 1 to 0, and another one is at 2.
C3_Witness ==
    /\ \E t \in Tids : tx[t].nwrites = 2 /\ tx[t].last = Opt(Uint32(I64(0)))
    /\ \E t \in Tids : tx[t].nwrites = 1 /\ tx[t].last = Opt(Uint32(I64(2)))

(***************************************************************************)
(* C4: a GET without observe option is answered with exactly one write, of *)
(* a message without observe option, and starts no transmitter.            *)
(***************************************************************************)
C4_PlainGet ==
    (handled.any /\ handled.req.code = "GET" /\ ~handled.req.obs.set) =>
        /\ handled.branch = "answer"
        /\ handled.attempts = 1
        /\ ~handled.msg.observe.set
        /\ handled.msg.token = handled.req.token
        /\ handled.tid = 0

C4_Witness ==
    /\ handled.any /\ handled.req.code = "GET" /\ ~handled.req.obs.set
    /\ ~handled.err
    /\ \E t \in Tids : Running(t)
(***************************************************************************)
(* C5 (original statement): a request that starts an observation is not    *)
(* answered by the handler, and the transmitter writes its first message   *)
(* only after a sleep of one second.                                       *)
(***************************************************************************)
C5_FirstWriteAfterSleep ==
    /\ handled.branch = "spawn" => handled.attempts = 0
    /\ \A t \in Tids : tx[t].wrote => tx[t].nsleeps >= 1

(***************************************************************************)
(* C5 (amended): a request that starts an observation is not answered by   *)
(* the handler; the first message of the subscription is written by the    *)
(* transmitter it starts, as the first thing the transmitter does: before  *)
(* any sleep, with zero seconds elapsed, and not after one second.         *)
(***************************************************************************)
C5_FirstWriteBeforeSleep ==
    /\ handled.branch = "spawn" =>
           /\ handled.attempts = 0
           /\ handled.tid \in Tids /\ tx[handled.tid].pc # "free"
    /\ \A t \in Tids :
           /\ tx[t].pc = "send" /\ ~tx[t].wrote => tx[t].nsleeps = 0
           /\ tx[t].nsleeps >= 1 => tx[t].wrote
           /\ tx[t].pc = "sleep" => tx[t].wrote

\* C5 witness: the transmitter of the request handled last has written and has
\* not slept yet.
C5_Witness ==
    /\ handled.branch = "spawn" /\ handled.tid \in Tids
    /\ tx[handled.tid].wrote /\ tx[handled.tid].nsleeps = 0
    /\ tx[handled.tid].last = Opt(Uint32(I64(2)))

(***************************************************************************)
(* C6: no connection (with its token) has more than one running            *)
(* transmitter.                                                            *)
(***************************************************************************)
C6_OneTransmitterPerConnection ==
    \A c \in Conns :
        Cardinality({t \in Tids : Running(t) /\ tx[t].conn = c
                                    /\ tx[t].token = TokenOf(c)}) <= 1

(***************************************************************************)
(* C7: cancelling a subscription destroys its notifier loop: once the      *)
(* deregistering GET of a subscription was handled, its transmitter        *)
(* completes at most the write it was in and then writes no more.          *)
(***************************************************************************)
C7_CancelStopsTransmitter ==
    \A t \in Tids : tx[t].cancelled => tx[t].postCancel <= 1

(***************************************************************************)
(* C8: once a write of a transmitter has failed, the transmitter is        *)
(* stopped for good: it tries no further write and its counter stays.      *)
(***************************************************************************)
C8_StopsOnFirstError ==
    [][\A t \in Tids : tx[t].failed =>
          /\ tx[t].pc = "stopped"
          /\ tx'[t].pc = "stopped"
          /\ tx'[t].nattempts = tx[t].nattempts
          /\ tx'[t].nwrites = tx[t].nwrites
          /\ tx'[t].obs = tx[t].obs]_vars

\* C8 witness: a transmitter stopped after some successful writes while the
\* model still has write attempts left.
C8_Witness ==
    \E t \in Tids :
        /\ tx[t].failed /\ tx[t].pc = "stopped" /\ tx[t].nwrites >= 1
        /\ SumAttempts(MaxTx) < MaxPush

(***************************************************************************)
(* C9: a transmitter stops only by a failed write of its own: every        *)
(* stopped transmitter has had a write fail, and the step that stops a     *)
(* running transmitter is its own failing write, never a request.          *)
(***************************************************************************)
C9_NoExternalCancellation ==
    [][\A t \in Tids :
          /\ tx[t].pc = "stopped" => tx[t].failed
          /\ (Running(t) /\ tx'[t].pc # tx[t].pc /\ tx'[t].pc = "stopped") =>
                 /\ tx[t].pc = "send"
                 /\ tx'[t].failed
                 /\ tx'[t].nattempts = tx[t].nattempts + 1
          /\ (Running(t) /\ handled' # handled) => tx'[t].pc = tx[t].pc]_vars

\* C9 witness: a deregistering GET was handled for a subscription whose
\* transmitter is still running.
C9_Witness ==
    /\ handled.any /\ IsCancel(handled.req)
    /\ \E t \in Tids :
           /\ Running(t) /\ tx[t].cancelled
           /\ tx[t].conn = handled.req.conn /\ tx[t].token = handled.req.token

(***************************************************************************)
(* C10 (original statement): a request starts a transmitter exactly when   *)
(* it is a confirmable GET with observe value 0, and every other request   *)
(* is answered once, without observe option.                               *)
(***************************************************************************)
C10_ConfirmableGetOnly ==
    handled.any =>
        /\ handled.branch = "spawn" <=>
               /\ handled.req.code = "GET" /\ handled.req.type = "CON"
               /\ handled.req.obs.set /\ handled.req.obs.val = 0
        /\ handled.branch # "spawn" =>
               handled.attempts = 1 /\ ~handled.msg.observe.set

(***************************************************************************)
(* C10 (amended): a request starts a transmitter, and is not answered by   *)
(* the handler, exactly when it is a GET with observe value 0, confirmable *)
(* or not; every other GET is answered with one write of the uptime        *)
(* without observe option; a request that is no GET gets no write.         *)
(***************************************************************************)
C10_GetWithObserveZero ==
    handled.any =>
        /\ handled.branch = "spawn" <=>
               /\ handled.req.code = "GET"
               /\ handled.req.obs.set /\ handled.req.obs.val = 0
        /\ handled.branch = "spawn" =>
               handled.attempts = 0 /\ handled.tid \in Tids
        /\ (handled.req.code = "GET" /\ handled.branch # "spawn") =>
               /\ handled.branch = "answer"
               /\ handled.attempts = 1
               /\ ~handled.msg.observe.set
               /\ handled.msg.elapsed = 0
               /\ handled.tid = 0
        /\ handled.req.code # "GET" =>
               handled.branch = "none" /\ handled.attempts = 0 /\ handled.tid = 0

\* C10 witness: a non-confirmable GET with observe value 0 started a transmitter.
C10_Witness ==
    /\ handled.any /\ handled.branch = "spawn"
    /\ handled.req.type = "NON"
    /\ handled.tid \in Tids /\ tx[handled.tid].pc # "free"
-----------------------------------------------------------------------------
\* main has started both serving loops
BothLoopsStarted == srv.unicast # "off" /\ srv.multicast # "off"

-----------------------------------------------------------------------------
\* the writes the model lets the transmitters try are used up
WritesUsedUp == SumAttempts(MaxTx) >= MaxPush

(***************************************************************************)
(* C16: as long as none of its writes fails, a transmitter does not stop:  *)
(* under fair scheduling it goes on to write the notification built from   *)
(* sequence number n, for every n from 2 upwards (here up to the number of *)
(* writes the model allows).                                               *)
(***************************************************************************)
C16_TransmitterKeepsWriting ==
    \A t \in Tids : \A n \in 2 .. (MaxPush + 1) :
        Running(t) ~>
            \/ tx[t].failed
            \/ tx[t].nwrites >= n - 1 /\ ~U32Less(tx[t].last.val, Uint32(I64(n)))
            \/ WritesUsedUp

\* Three writes without a failure: the last one carries 4.
C16_Witness ==
    /\ tx[1].nwrites = 3
    /\ ~tx[1].failed
    /\ tx[1].last = Opt(Uint32(I64(4)))

(***************************************************************************)
(* C17: each iteration of a transmitter writes, then sleeps, then          *)
(* increments the sequence number: the notification with 2 is written      *)
(* before any sleep, and between two consecutive writes of a transmitter   *)
(* there is exactly one sleep and exactly one increment.                   *)
(***************************************************************************)
C17_WriteSleepIncrement ==
    \A t \in Tids : tx[t].pc # "free" =>
        /\ tx[t].obs = I64(2 + tx[t].nsleeps)
        /\ tx[t].pc = "send" => tx[t].nwrites = tx[t].nsleeps
        /\ tx[t].pc = "sleep" => tx[t].nwrites = tx[t].nsleeps + 1
        /\ tx[t].pc = "stopped" => tx[t].nwrites = tx[t].nsleeps
        /\ tx[t].wrote => tx[t].last = Opt(Uint32(I64(1 + tx[t].nwrites)))

\* After the second write: one sleep and one increment since the first.
C17_Witness ==
    \E t \in Tids :
        /\ tx[t].pc = "sleep"
        /\ tx[t].nwrites = 2
        /\ tx[t].nsleeps = 1
        /\ tx[t].obs = I64(3)

(***************************************************************************)
(* C18: the transmitters of different subscribers are independent: each    *)
(* starts with the token of the request that spawned it, its own start     *)
(* time and its own counter at 2, and keeps its token; each notification   *)
(* carries that token; a step of one transmitter, a failed write that      *)
(* stops it included, changes nothing of any other transmitter.            *)
(***************************************************************************)
C18_IndependentTransmitters ==
    [][\A t \in Tids :
          /\ (tx[t].pc = "free" /\ tx'[t].pc # "free") =>
                 /\ tx'[t].token = handled'.req.token
                 /\ tx'[t].conn = handled'.req.conn
                 /\ tx'[t].obs = I64(2)
                 /\ tx'[t].nsleeps = 0
          /\ tx[t].pc # "free" => tx'[t].token = tx[t].token
          /\ tx'[t].wrote => tx'[t].lastToken = tx'[t].token
          /\ (\/ tx'[t].failed # tx[t].failed
              \/ tx'[t].nattempts # tx[t].nattempts
              \/ tx'[t].nsleeps # tx[t].nsleeps) =>
                 \A u \in Tids \ {t} : tx'[u] = tx[u]]_vars

\* The transmitter of t1 stopped at a failed write; the one of t2 has written
\* twice with its own token.
C18_Witness ==
    /\ tx[1].token = "t1" /\ tx[1].failed /\ tx[1].pc = "stopped"
    /\ tx[2].token = "t2" /\ tx[2].nwrites = 2 /\ tx[2].lastToken = "t2"
    /\ Running(2)

-----------------------------------------------------------------------------
\* the host of an address string is a loopback address
IsLoopbackAddr(str) ==
    \E r \in Responders : IsLoopbackIP(r.ip) /\ SplitHostPort(str).host = <<r.ip>>

\* main has left the discovery wait for the steps after it
PastDiscovery == mpc \in {"derive", "dial", "observe", "running"}

(***************************************************************************)
(* C1: the client selects exactly one device: once a response callback has *)
(* assigned firstDevice, no later callback changes it.                     *)
(***************************************************************************)
C1_SelectedDeviceNeverChanges ==
    [][firstDevice # EmptyString => firstDevice' = firstDevice]_vars

(***************************************************************************)
(* C2: without a response from a non-loopback address the client never     *)
(* gets past the discovery wait (it ends with the Timeout), and no         *)
(* loopback address is ever recorded as the selected device.               *)
(***************************************************************************)
C2_NoLoopbackDevice ==
    /\ firstDevice # EmptyString => ~IsLoopbackAddr(firstDevice)
    /\ PastDiscovery =>
           \E r \in Responders : ~IsLoopbackIP(r.ip) /\ cb[r] # "idle"
    /\ (\A r \in Responders : ~IsLoopbackIP(r.ip) => cb[r] = "idle") =>
           mpc \in {"start", "discover", "wait", "fatal", "timeout", "killed"}

(***************************************************************************)
(* C11: the observer address main derives is the host of the selected      *)
(* device's address, unchanged, followed by ":5688", whatever the port the *)
(* device answered from; it is not changed afterwards, and it is the       *)
(* address udp.Dial connects to.                                           *)
(***************************************************************************)
C11_ObserverAddrIsHostWith5688 ==
    [][/\ (mpc = "derive" /\ mpc' = "dial") =>
             \E r \in Responders :
                 /\ firstDevice = AddrString(r)
                 /\ observerAddr' = <<r.ip, ":", "5688">>
       /\ observerAddr # EmptyString => observerAddr' = observerAddr
       /\ co' # EmptyString => co' = observerAddr]_vars

\* The device that answered from port 49152 was selected and dialled on 5688.
C11_Witness ==
    /\ firstDevice = <<"203.0.113.5", ":", "49152">>
    /\ co = <<"203.0.113.5", ":", "5688">>

\* the deferred call d has run
HasRun(d) == \E i \in 1 .. Len(ran) : ran[i] = d

\* main has deferred the call d
Deferred(d) == \E i \in 1 .. Len(defers) : defers[i] = d

(***************************************************************************)
(* C12: when the client is ended by a signal after the observation was set *)
(* up, the subscription's cancel has been called, and it was called before *)
(* the connection was closed.                                              *)
(***************************************************************************)
C12_CancelOnSignalBeforeClose ==
    (mpc = "killed" /\ Deferred("obs.Cancel")) =>
        \E i \in 1 .. Len(ran) :
            /\ ran[i] = "obs.Cancel"
            /\ \A j \in 1 .. Len(ran) : ran[j] = "co.Close" => i < j

(***************************************************************************)
(* C13: when reading the body fails in the observation callback, that      *)
(* notification is dropped and nothing else happens: the callback cancels  *)
(* nothing and closes nothing, main stays where it is, and the             *)
(* subscription stays in place, so the callback is called for the          *)
(* notifications that follow.                                              *)
(***************************************************************************)
C13_ReadErrorDropsOneNotification ==
    [][/\ note'.dropped # note.dropped =>
              /\ note'.dropped = note.dropped + 1
              /\ note'.printed = note.printed
              /\ ran' = ran
              /\ co' = co
              /\ mpc' = mpc
       /\ (mpc' = "running" /\ note'.dropped > 0) => Subscribed']_vars

\* A notification was dropped and a later one was logged.
C13_Witness ==
    /\ note.dropped = 1
    /\ note.printed = 1
    /\ note.last = "printed"

(***************************************************************************)
(* C14: the discovery request taken from the message pool is given back to *)
(* the pool on every path the client takes after sending it: the timeout,  *)
(* a failure of a later step, and the interrupt of the running client.     *)
(***************************************************************************)
C14_RequestReleased ==
    (\/ mpc = "timeout"
     \/ mpc \in {"fatal", "killed"} /\ Len(defers) > Len(SetupDefers)) =>
        HasRun("messagePool.ReleaseMessage")

\* The callbacks that have assigned firstDevice: those waiting to send on
\* deviceFound and the one whose send main received.
Assignments ==
    Cardinality({r \in Responders : cb[r] = "send"})
        + (IF signalFrom = "none" THEN 0 ELSE 1)

(***************************************************************************)
(* C19: with the callbacks of different responders running concurrently,   *)
(* firstDevice is assigned at most once and deviceFound is sent on at most *)
(* once: no callback is left blocked in its send once main has left the    *)
(* wait, and firstDevice does not change after main has read it.           *)
(***************************************************************************)
C19_AtMostOneAssignment ==
    [][/\ Assignments' <= 1
       /\ PastDiscovery' => \A r \in Responders : cb'[r] # "send"
       /\ mpc \in {"dial", "observe", "running"} => firstDevice' = firstDevice]_vars

(***************************************************************************)
(* C20: when main leaves the discovery wait to derive the observer         *)
(* address, firstDevice is set and is the address of the responder whose   *)
(* callback sent the signal main received.                                 *)
(***************************************************************************)
C20_DeviceOfTheSignal ==
    mpc = "derive" =>
        /\ firstDevice # EmptyString
        /\ \E r \in Responders : r.ip = signalFrom /\ firstDevice = AddrString(r)

=============================================================================
